---- MODULE Spec2Model ----
(***************************************************************************)
(* Model of the OpenClaw push-notification plugin: the config resolver     *)
(* (src/config.ts), the push tool (src/tools/push.ts) and the diagnostic   *)
(* CLI command of the plugin entry point (src/index.ts).                   *)
(*                                                                         *)
(* Conventions.  A JavaScript object is a function from property names to  *)
(* values; an optional property that is not set is not in its DOMAIN.  A   *)
(* JavaScript string is a sequence of non-empty chunks of characters, so   *)
(* "" is <<>>, a + b is a \o b, and a URL keeps every "/" as a chunk of    *)
(* its own.                                                                *)
(***************************************************************************)
EXTENDS Integers, Sequences, FiniteSets, TLC

VARIABLES
    config,       \* api.config, the host's configuration tree
    env,          \* process.env
    pc,           \* where the current execute() call is
    call,         \* the raw input of an invocation the tool has not yet run
    pluginEntry,  \* what resolvePushPluginEntry returned in the current call
    fetchCalls,   \* the outbound requests the current call handed to fetch
    aborted,      \* whether the caller's AbortSignal has fired
    response,     \* the Response fetch resolved with
    bodyRead,     \* what response.json() settled with
    caught,       \* the value the outer catch caught
    outcome,      \* how the execute() promise settled
    trace,        \* the phases the current call went through
    console       \* the lines the diagnostic command printed

vars == <<config, env, pc, call, pluginEntry, fetchCalls, aborted, response,
          bodyRead, caught, outcome, trace, console>>

\* Largest number of trailing "/" on a configured backendUrl.
MaxSlashes == 2

-----------------------------------------------------------------------------
(* JavaScript values *)

EmptyObj == <<>>
EmptyStr == <<>>
Has(o, k) == k \in DOMAIN o
Str(chunk) == <<chunk>>
\* The value undefined, where an object is expected.
Undefined == [undefined |-> TRUE]
\* A string where string | undefined is expected.
Defined(s) == [undefined |-> FALSE, value |-> s]
\* None: a variable of the model that holds nothing yet.
None == [none |-> TRUE]
\* The objects with property k unset, or set to a value of S.
Opt(k, S) == {EmptyObj} \cup {k :> v : v \in S}
\* a ?? b
Coalesce(a, b) == IF a # Undefined THEN a ELSE b
\* o?.k for an object-valued property k
ChainObj(o, k) == IF o # Undefined /\ Has(o, k) THEN o[k] ELSE Undefined
\* o?.k is a non-empty string
TruthyStr(o, k) == o # Undefined /\ Has(o, k) /\ o[k] # EmptyStr
\* o?.k === false
IsFalse(o, k) == o # Undefined /\ Has(o, k) /\ o[k] = FALSE

-----------------------------------------------------------------------------
(* src/config.ts *)

CanonicalKey == "push-notification"
PackageKey == "openclaw-push-notification"
LegacyKey == "push_notification"

\* entries[k].  The entries map is [keys |-> its keys in insertion order,
\* at |-> the entry stored under each key]; a property read goes by name.
Lookup(entries, k) == IF Has(entries.at, k) THEN entries.at[k] ELSE Undefined

\* Mutant: the first recognized key in insertion order wins.
resolvePushPluginEntry_insertionOrder(cfg) ==
    LET plugins == ChainObj(cfg, "plugins")
        entries == ChainObj(plugins, "entries")
        recognized == {CanonicalKey, PackageKey, LegacyKey}
    IN  IF entries = Undefined
        THEN Undefined
        ELSE LET hits == {i \in 1..Len(entries.keys) : entries.keys[i] \in recognized}
             IN  IF hits = {}
                 THEN Undefined
                 ELSE entries.at[entries.keys[CHOOSE i \in hits : \A j \in hits : i <= j]]

\* Mutant: the package-name key is tried before the canonical key.
resolvePushPluginEntry_packageFirst(cfg) ==
    LET plugins == ChainObj(cfg, "plugins")
        entries == ChainObj(plugins, "entries")
    IN  IF entries = Undefined
        THEN Undefined
        ELSE Coalesce(Lookup(entries, PackageKey),
                 Coalesce(Lookup(entries, CanonicalKey),
                          Lookup(entries, LegacyKey)))

\* Mutant: with no recognized key, the first entry of the map is taken.
resolvePushPluginEntry_anyKey(cfg) ==
    LET plugins == ChainObj(cfg, "plugins")
        entries == ChainObj(plugins, "entries")
    IN  IF entries = Undefined
        THEN Undefined
        ELSE Coalesce(Lookup(entries, CanonicalKey),
                 Coalesce(Lookup(entries, PackageKey),
                     Coalesce(Lookup(entries, LegacyKey),
                         IF entries.keys = <<>>
                         THEN Undefined
                         ELSE entries.at[entries.keys[1]])))

resolvePushPluginEntry(cfg) ==
    LET plugins == ChainObj(cfg, "plugins")
        entries == ChainObj(plugins, "entries")
    IN  IF entries = Undefined
        THEN Undefined
        ELSE Coalesce(Lookup(entries, CanonicalKey),
                 Coalesce(Lookup(entries, PackageKey),
                          Lookup(entries, LegacyKey)))

-----------------------------------------------------------------------------
(* src/tools/push.ts: input validation *)

SchemaKeys == {"message", "title", "data", "priority"}
Priorities == {Str("low"), Str("normal"), Str("high")}

\* PushSchema.parse(input) does not throw.  Every input of the model has
\* values of the declared types, so what is left to check is that message is
\* there with at least one character and that priority, when given, is one of
\* the enumerated values.  z.object() without .strict() accepts unknown keys.
\* Mutant: message is z.string() without .min(1).
PushSchemaAccepts_noMinLength(input) ==
    /\ Has(input, "message")
    /\ Has(input, "priority") => input.priority \in Priorities

PushSchemaAccepts(input) ==
    /\ Has(input, "message")
    /\ Len(input.message) >= 1
    /\ Has(input, "priority") => input.priority \in Priorities

\* The value PushSchema.parse(input) returns: unknown keys are stripped and
\* priority gets its default.
PushSchemaParse(input) ==
    [k \in (DOMAIN input \cap SchemaKeys) \cup {"priority"} |->
        IF k = "priority" /\ ~Has(input, "priority")
        THEN Str("normal")
        ELSE input[k]]

-----------------------------------------------------------------------------
(* src/tools/push.ts: JSON values of a response body *)

JNull == [type |-> "null"]
JBool(b) == [type |-> "boolean", bool |-> b]
JNum(n) == [type |-> "number", number |-> n]
JStr(s) == [type |-> "string", value |-> s]
JObj(props) == [type |-> "object", props |-> props]
\* response.json() rejected: the body is no JSON, or the read was aborted.
JsonRejected == [type |-> "rejected"]

Whitespace == {" ", "\t", "\n"}

RECURSIVE TrimStart(_)
TrimStart(s) ==
    IF s # EmptyStr /\ Head(s) \in Whitespace THEN TrimStart(Tail(s)) ELSE s

RECURSIVE TrimEnd(_)
TrimEnd(s) ==
    IF s # EmptyStr /\ s[Len(s)] \in Whitespace
    THEN TrimEnd(SubSeq(s, 1, Len(s) - 1))
    ELSE s

\* String.prototype.trim
Trim(s) == TrimEnd(TrimStart(s))

\* typeof payload[k] === 'string' && payload[k].trim()
NonBlankStringField(props, k) ==
    /\ Has(props, k)
    /\ props[k].type = "string"
    /\ Trim(props[k].value) # EmptyStr

\* Mutant: the message field is read before the error field.
readErrorMessageFromBody_messageFirst(body) ==
    IF body.type # "object"
    THEN Undefined
    ELSE IF NonBlankStringField(body.props, "message")
         THEN Defined(body.props.message.value)
         ELSE IF NonBlankStringField(body.props, "error")
              THEN Defined(body.props.error.value)
              ELSE Undefined

readErrorMessageFromBody(body) ==
    IF body.type # "object"
    THEN Undefined
    ELSE IF NonBlankStringField(body.props, "error")
         THEN Defined(body.props.error.value)
         ELSE IF NonBlankStringField(body.props, "message")
              THEN Defined(body.props.message.value)
              ELSE Undefined

\* Mutant: the failure text does not carry the error of the Result.
formatToolText_genericFailure(result) ==
    IF result.success
    THEN Str("Push notification sent successfully.")
    ELSE Str("Push notification failed: ") \o Str("Unknown error")

formatToolText(result) ==
    IF result.success
    THEN Str("Push notification sent successfully.")
    ELSE Str("Push notification failed: ")
            \o (IF Has(result, "error") THEN result.error ELSE Str("Unknown error"))

-----------------------------------------------------------------------------
(* src/tools/push.ts: executePush up to the fetch call *)

DisabledResult ==
    [success |-> FALSE, error |-> Str("Push notification plugin is disabled")]

UnconfiguredResult ==
    [success |-> FALSE,
     error |-> <<"Push notification plugin ", "not configured", ". Set ",
                 "plugins.entries[\"push-notification\"].config.backendUrl",
                 " in openclaw.json">>]

\* pluginEntry?.enabled === false || pluginConfig?.enabled === false
IsDisabled(entry, pluginConfig) ==
    IsFalse(entry, "enabled") \/ IsFalse(pluginConfig, "enabled")

\* a || b || c over strings that may be unset
FirstTruthy(o, k, rest) == IF TruthyStr(o, k) THEN o[k] ELSE rest

\* new Date().toISOString(): an instant the model does not look into.
IsoTimestamp == Str("<ISO-8601 instant>")

\* Mutant: the fallback variable names are read before the OPENCLAW_ ones.
BuildPayload_fallbackEnvFirst(params, pluginConfig, e) ==
    [message   |-> params.message,
     title     |-> FirstTruthy(params, "title",
                       FirstTruthy(pluginConfig, "defaultTitle",
                           Str("OpenClaw Agent"))),
     data      |-> IF Has(params, "data") THEN params.data ELSE EmptyObj,
     priority  |-> params.priority,
     jobId     |-> FirstTruthy(e, "JOB_ID",
                       FirstTruthy(e, "OPENCLAW_JOB_ID", Str("unknown"))),
     agentId   |-> FirstTruthy(e, "AGENT_ID",
                       FirstTruthy(e, "OPENCLAW_AGENT_ID", Str("unknown"))),
     timestamp |-> IsoTimestamp]

BuildPayload(params, pluginConfig, e) ==
    [message   |-> params.message,
     title     |-> FirstTruthy(params, "title",
                       FirstTruthy(pluginConfig, "defaultTitle",
                           Str("OpenClaw Agent"))),
     data      |-> IF Has(params, "data") THEN params.data ELSE EmptyObj,
     priority  |-> params.priority,
     jobId     |-> FirstTruthy(e, "OPENCLAW_JOB_ID",
                       FirstTruthy(e, "JOB_ID", Str("unknown"))),
     agentId   |-> FirstTruthy(e, "OPENCLAW_AGENT_ID",
                       FirstTruthy(e, "AGENT_ID", Str("unknown"))),
     timestamp |-> IsoTimestamp]

\* Mutant: the key is sent without the "Bearer " scheme.
BuildHeaders_bareKey(pluginConfig) ==
    ("Content-Type" :> Str("application/json"))
        @@ (IF TruthyStr(pluginConfig, "apiKey")
            THEN "Authorization" :> pluginConfig.apiKey
            ELSE EmptyObj)

BuildHeaders(pluginConfig) ==
    ("Content-Type" :> Str("application/json"))
        @@ (IF TruthyStr(pluginConfig, "apiKey")
            THEN "Authorization" :> (Str("Bearer ") \o pluginConfig.apiKey)
            ELSE EmptyObj)

\* Mutant: only one trailing "/" is removed.
TrimTrailingSlashes_onlyOne(url) ==
    IF url # EmptyStr /\ url[Len(url)] = "/"
    THEN SubSeq(url, 1, Len(url) - 1)
    ELSE url

\* url.replace(/\/+$/, '')
RECURSIVE TrimTrailingSlashes(_)
TrimTrailingSlashes(url) ==
    IF url # EmptyStr /\ url[Len(url)] = "/"
    THEN TrimTrailingSlashes(SubSeq(url, 1, Len(url) - 1))
    ELSE url

SendPath == <<"/", "api", "/", "notifications", "/", "send">>

\* JSON.stringify(v): the text that parses back to v.
JSONStringify(v) == [jsonText |-> v]

BuildRequest(params, pluginConfig, e) ==
    [url     |-> TrimTrailingSlashes(pluginConfig.backendUrl) \o SendPath,
     method  |-> "POST",
     headers |-> BuildHeaders(pluginConfig),
     body    |-> JSONStringify(BuildPayload(params, pluginConfig, e))]

\* Mutant: the unconfigured check runs before the disabled check.
executePushSync_urlCheckFirst(params, cfg, e) ==
    LET entry == resolvePushPluginEntry(cfg)
        pluginConfig == ChainObj(entry, "config")
    IN  IF ~TruthyStr(pluginConfig, "backendUrl")
        THEN [kind |-> "return", phase |-> "Unconfigured",
              result |-> UnconfiguredResult]
        ELSE IF IsDisabled(entry, pluginConfig)
             THEN [kind |-> "return", phase |-> "Disabled",
                   result |-> DisabledResult]
             ELSE [kind |-> "fetch", phase |-> "Sending",
                   request |-> BuildRequest(params, pluginConfig, e)]

\* Mutant: an entry without apiKey counts as not configured.
executePushSync_requiresApiKey(params, cfg, e) ==
    LET entry == resolvePushPluginEntry(cfg)
        pluginConfig == ChainObj(entry, "config")
    IN  IF IsDisabled(entry, pluginConfig)
        THEN [kind |-> "return", phase |-> "Disabled", result |-> DisabledResult]
        ELSE IF ~TruthyStr(pluginConfig, "backendUrl")
                  \/ ~TruthyStr(pluginConfig, "apiKey")
             THEN [kind |-> "return", phase |-> "Unconfigured",
                   result |-> UnconfiguredResult]
             ELSE [kind |-> "fetch", phase |-> "Sending",
                   request |-> BuildRequest(params, pluginConfig, e)]

\* executePush from its first line to the first await: either it returns a
\* Result at once, or it hands one request to fetch.
executePushSync(params, cfg, e) ==
    LET entry == resolvePushPluginEntry(cfg)
        pluginConfig == ChainObj(entry, "config")
    IN  IF IsDisabled(entry, pluginConfig)
        THEN [kind |-> "return", phase |-> "Disabled", result |-> DisabledResult]
        ELSE IF ~TruthyStr(pluginConfig, "backendUrl")
             THEN [kind |-> "return", phase |-> "Unconfigured",
                   result |-> UnconfiguredResult]
             ELSE [kind |-> "fetch", phase |-> "Sending",
                   request |-> BuildRequest(params, pluginConfig, e)]

-----------------------------------------------------------------------------
(* src/tools/push.ts: executePush after the fetch call *)

\* response.ok
ResponseOk(resp) == resp.status \in 200..299

\* Mutant: the outer catch reports every failure as "Unknown error".
CatchResult_alwaysUnknown(error) ==
    [success |-> FALSE,
     error |-> Str("Failed to send notification: ") \o Str("Unknown error")]

\* The handler of the outer catch.
CatchResult(error) ==
    [success |-> FALSE,
     error |-> Str("Failed to send notification: ")
                  \o (IF error.isError THEN error.message ELSE Str("Unknown error"))]

\* Mutant: the failure Result also carries the parsed error body.
NotOkResult_carriesBody(resp, parsed) ==
    [success |-> FALSE,
     error |-> Str("Failed to send notification: ")
                  \o Str(ToString(resp.status)) \o Str(" ") \o resp.statusText,
     result |-> parsed]

\* The !response.ok branch, once response.json() settled with `parsed`.
NotOkResult(resp, parsed) ==
    LET statusLine == Str(ToString(resp.status)) \o Str(" ") \o resp.statusText
        fromBody == IF parsed = JsonRejected
                    THEN Undefined
                    ELSE readErrorMessageFromBody(parsed)
        errorMessage == IF fromBody # Undefined /\ fromBody.value # EmptyStr
                        THEN fromBody.value
                        ELSE statusLine
    IN  [success |-> FALSE,
         error |-> Str("Failed to send notification: ") \o errorMessage]

\* Mutant: a success status with an unparsable body is reported as a failure.
OkResult_failsOnUnparsable(parsed) ==
    IF parsed = JsonRejected
    THEN [success |-> FALSE,
          error |-> Str("Failed to send notification: ") \o Str("Unknown error")]
    ELSE [success |-> TRUE, result |-> parsed]

\* The response.ok branch, once response.json() settled with `parsed`.
OkResult(parsed) ==
    [success |-> TRUE,
     result |-> IF parsed = JsonRejected
                THEN JObj("success" :> JBool(TRUE))
                ELSE parsed]

\* What execute() resolves with.
ToolResult(details) ==
    [kind |-> "resolved",
     content |-> <<[type |-> "text", text |-> formatToolText(details)]>>,
     details |-> details]

\* What execute() rejects with when PushSchema.parse throws.
ValidationRejection == [kind |-> "rejected", error |-> "ZodError"]

\* executePush from the settling of response.json() to its return.
ClassifyResponse(resp, parsed) ==
    IF ~ResponseOk(resp) THEN NotOkResult(resp, parsed) ELSE OkResult(parsed)

\* Mutant: the outer catch throws the error on.
OnFetchRejected_rethrows(error) == [kind |-> "rejected", error |-> "FetchError"]

\* How execute() settles when fetch rejected with `error`.
OnFetchRejected(error) == ToolResult(CatchResult(error))

\* How execute() settles once response.json() settled with `parsed`.
OnBodySettled(resp, parsed) == ToolResult(ClassifyResponse(resp, parsed))

-----------------------------------------------------------------------------
(* The values the model draws configurations, inputs, environments and       *)
(* backend behaviour from.                                                   *)

OtherKey == "some-other-plugin"
RecognizedKeys == {CanonicalKey, PackageKey, LegacyKey}
AllKeys == RecognizedKeys \cup {OtherKey}

BaseUrl == <<"https:", "/", "/", "notify.example">>
Slashes(n) == [i \in 1..n |-> "/"]
BackendUrls == {EmptyStr} \cup {BaseUrl \o Slashes(n) : n \in 0..MaxSlashes}
ApiKeys == {EmptyStr, Str("secret-key")}
DefaultTitles == {EmptyStr, Str("Agent Default")}

\* PushNotificationConfig without its enabled flag: every apiKey and
\* defaultTitle behind one backendUrl, and every backendUrl.
SettingsSet ==
    {[backendUrl |-> BaseUrl] @@ k @@ t :
        k \in Opt("apiKey", ApiKeys), t \in Opt("defaultTitle", DefaultTitles)}
    \cup
    {u @@ [apiKey |-> Str("secret-key"), defaultTitle |-> Str("Agent Default")] :
        u \in Opt("backendUrl", BackendUrls)}

\* PushNotificationConfig with and without its enabled flag and backendUrl.
FlagSettings ==
    {f @@ u : f \in Opt("enabled", BOOLEAN), u \in Opt("backendUrl", {BaseUrl})}

\* PluginEntryConfig
EntrySet ==
    {f @@ c : f \in Opt("enabled", BOOLEAN), c \in Opt("config", FlagSettings)}
        \cup {[config |-> s] : s \in SettingsSet}

EnabledEntry == [enabled |-> TRUE, config |-> [backendUrl |-> BaseUrl]]
DisabledEntry == [enabled |-> FALSE, config |-> [backendUrl |-> BaseUrl \o Slashes(1)]]
UrlLessEntry == [config |-> [apiKey |-> Str("secret-key")]]
ProbeEntries == {EnabledEntry, DisabledEntry, UrlLessEntry}

\* The entries map with the given keys, in that order, and the entry of each.
Entries(keys, at) == [keys |-> keys, at |-> at]
NoEntries == Entries(<<>>, EmptyObj)
Cfg(entries) == [plugins |-> [entries |-> entries]]

\* PushPluginApiConfig: no plugins, no entries map, an empty one, one key, and
\* two keys in either order.
ShapeConfigs == {EmptyObj, [plugins |-> EmptyObj], Cfg(NoEntries)}

DispatchConfigs ==
    ShapeConfigs
        \cup {Cfg(Entries(<<CanonicalKey>>, CanonicalKey :> e)) : e \in EntrySet}
        \cup {Cfg(Entries(<<k>>, k :> e)) :
                k \in AllKeys \ {CanonicalKey}, e \in ProbeEntries}
        \cup {Cfg(Entries(ks, (ks[1] :> DisabledEntry) @@ (ks[2] :> EnabledEntry))) :
                ks \in {p \in RecognizedKeys \X RecognizedKeys : p[1] # p[2]}}

\* The raw input of a tool call: any of the declared properties may be missing,
\* message may be empty, priority may be off the list, and an undeclared
\* property may ride along.
Inputs ==
    {m @@ t @@ d @@ p @@ x :
        m \in Opt("message", {EmptyStr, Str("Task completed")}),
        t \in Opt("title", {EmptyStr, Str("Alert")}),
        d \in Opt("data", {[ticket |-> Str("T-1")]}),
        p \in Opt("priority", Priorities \cup {Str("urgent")}),
        x \in Opt("verbose", {TRUE})}

\* process.env: every setting of the two job variables beside one setting of
\* the agent variables, and the other way round.
JobEnvs ==
    {a @@ b : a \in Opt("OPENCLAW_JOB_ID", {EmptyStr, Str("job-123")}),
              b \in Opt("JOB_ID", {Str("job-legacy")})}
AgentEnvs ==
    {a @@ b : a \in Opt("OPENCLAW_AGENT_ID", {EmptyStr, Str("agent-xyz")}),
              b \in Opt("AGENT_ID", {Str("agent-legacy")})}
EnvSet ==
    {j @@ [OPENCLAW_AGENT_ID |-> Str("agent-xyz")] : j \in JobEnvs}
        \cup {[OPENCLAW_JOB_ID |-> Str("job-123")] @@ a : a \in AgentEnvs}

\* What fetch resolves with.
Responses ==
    {[status |-> 200, statusText |-> Str("OK")],
     [status |-> 503, statusText |-> Str("Service Unavailable")]}

\* What response.json() resolves with.
JsonBodies ==
    {JNull,
     JObj([success |-> JBool(TRUE), receiptId |-> JStr(Str("receipt-1"))])}
        \cup {JObj(e @@ m) :
                e \in Opt("error", {JStr(Str("Backend unavailable")),
                                    JStr(Str(" ")), JNum(0)}),
                m \in Opt("message", {JStr(Str("Try again later"))})}

\* What fetch rejects with when the transport fails: an Error, or a thrown
\* value that is no Error.
TransportErrors ==
    {[isError |-> TRUE, message |-> Str("ECONNREFUSED")], [isError |-> FALSE]}

\* What fetch rejects with once the signal has fired: the AbortError, or the
\* reason given to abort(), which need not be an Error.
AbortReasons ==
    {[isError |-> TRUE, message |-> Str("This operation was aborted")],
     [isError |-> FALSE]}

-----------------------------------------------------------------------------
(* The state machine *)

Init ==
    /\ config \in DispatchConfigs
    /\ env \in EnvSet
    /\ pc = "idle"
    /\ call = None
    /\ pluginEntry = None
    /\ fetchCalls = <<>>
    /\ aborted = FALSE
    /\ response = None
    /\ bodyRead = None
    /\ caught = None
    /\ outcome = None
    /\ trace = <<>>
    /\ console = <<>>

\* The host changes process.env between two invocations.
SetEnv(e) ==
    /\ pc = "idle"
    /\ e # env
    /\ env' = e
    /\ UNCHANGED <<config, pc, call, pluginEntry, fetchCalls, aborted, response,
                   bodyRead, caught, outcome, trace, console>>

\* The agent runtime calls tool.execute(toolCallId, input, signal).
Invoke(input) ==
    /\ pc = "idle"
    /\ call' = input
    /\ pc' = "invoked"
    /\ UNCHANGED <<config, env, pluginEntry, fetchCalls, aborted, response,
                   bodyRead, caught, outcome, trace, console>>

\* execute() from PushSchema.parse to the first await of executePush, which
\* JavaScript runs without interruption.  signalFired: the caller's signal
\* had fired before the call.
Execute(signalFired) ==
    /\ pc = "invoked"
    /\ call' = None
    /\ aborted' = signalFired
    /\ IF ~PushSchemaAccepts(call)
       THEN /\ outcome' = ValidationRejection
            /\ pc' = "settled"
            /\ trace' = <<"Validating">>
            /\ UNCHANGED <<pluginEntry, fetchCalls>>
       ELSE LET params == PushSchemaParse(call)
                step == executePushSync(params, config, env)
            IN  /\ pluginEntry' = resolvePushPluginEntry(config)
                /\ trace' = <<"Validating", "Resolving", step.phase>>
                /\ IF step.kind = "return"
                   THEN /\ outcome' = ToolResult(step.result)
                        /\ pc' = "settled"
                        /\ UNCHANGED fetchCalls
                   ELSE /\ fetchCalls' = Append(fetchCalls, step.request)
                        /\ pc' = "awaitFetch"
                        /\ UNCHANGED outcome
    /\ UNCHANGED <<config, env, response, bodyRead, caught, console>>

\* The caller's AbortSignal fires while the request is in flight.
Abort ==
    /\ pc \in {"awaitFetch", "awaitBody"}
    /\ ~aborted
    /\ aborted' = TRUE
    /\ UNCHANGED <<config, env, pc, call, pluginEntry, fetchCalls, response,
                   bodyRead, caught, outcome, trace, console>>

\* fetch resolves: the response headers have arrived.
FetchResolves(resp) ==
    /\ pc = "awaitFetch"
    /\ ~aborted
    /\ response' = resp
    /\ pc' = "awaitBody"
    /\ UNCHANGED <<config, env, call, pluginEntry, fetchCalls, aborted,
                   bodyRead, caught, outcome, trace, console>>

\* The promise of fetch rejects: the transport failed, or the signal fired.
FetchRejects(error) ==
    /\ pc = "awaitFetch"
    /\ error \in (IF aborted THEN AbortReasons ELSE TransportErrors)
    /\ caught' = error
    /\ pc' = "fetchRejected"
    /\ UNCHANGED <<config, env, call, pluginEntry, fetchCalls, aborted,
                   response, bodyRead, outcome, trace, console>>

\* Mutant: the outer catch sends the request once more before it gives up.
AfterFetchRejected_retries ==
    /\ pc = "fetchRejected"
    /\ IF Len(fetchCalls) < 2
       THEN /\ fetchCalls' = Append(fetchCalls, fetchCalls[1])
            /\ trace' = Append(trace, "Sending")
            /\ pc' = "awaitFetch"
            /\ caught' = None
            /\ UNCHANGED outcome
       ELSE /\ outcome' = OnFetchRejected(caught)
            /\ trace' = Append(trace, "DeliveryFailed")
            /\ pc' = "settled"
            /\ UNCHANGED <<fetchCalls, caught>>
    /\ UNCHANGED <<config, env, call, pluginEntry, aborted, response, bodyRead,
                   console>>

\* The event loop resumes executePush in its outer catch, which turns the
\* error into a Result; execute() returns it.
AfterFetchRejected ==
    /\ pc = "fetchRejected"
    /\ outcome' = OnFetchRejected(caught)
    /\ trace' = Append(trace, "DeliveryFailed")
    /\ pc' = "settled"
    /\ UNCHANGED <<config, env, call, pluginEntry, fetchCalls, aborted,
                   response, bodyRead, caught, console>>

\* The promise of response.json() settles: with the parsed body, or with a
\* rejection when the body is no JSON or the signal fired while it was read.
BodySettles(parsed) ==
    /\ pc = "awaitBody"
    /\ parsed \in (IF aborted THEN {JsonRejected} ELSE JsonBodies \cup {JsonRejected})
    /\ bodyRead' = parsed
    /\ pc' = "bodySettled"
    /\ UNCHANGED <<config, env, call, pluginEntry, fetchCalls, aborted,
                   response, caught, outcome, trace, console>>

\* The event loop resumes executePush after await response.json(), in the try
\* or in the inner catch; it builds the Result and execute() returns it.
AfterBodySettled ==
    /\ pc = "bodySettled"
    /\ outcome' = OnBodySettled(response, bodyRead)
    /\ trace' = Append(trace, IF ClassifyResponse(response, bodyRead).success
                              THEN "Delivered"
                              ELSE "DeliveryFailed")
    /\ pc' = "settled"
    /\ UNCHANGED <<config, env, call, pluginEntry, fetchCalls, aborted,
                   response, bodyRead, caught, console>>

\* The runtime has taken the settled promise; the tool is ready for a new call.
Return ==
    /\ pc = "settled"
    /\ pc' = "idle"
    /\ pluginEntry' = None
    /\ fetchCalls' = <<>>
    /\ aborted' = FALSE
    /\ response' = None
    /\ bodyRead' = None
    /\ caught' = None
    /\ outcome' = None
    /\ trace' = <<>>
    /\ UNCHANGED <<config, env, call, console>>

\* The action of the push-notification:test command.
TestCommandLines(cfg) ==
    LET entry == resolvePushPluginEntry(cfg)
        settings == ChainObj(entry, "config")
    IN  IF ~TruthyStr(settings, "backendUrl")
        THEN <<Str("Push notification plugin is not configured."),
               Str("Set plugins.entries[\"push-notification\"].config.backendUrl in openclaw.json")>>
        ELSE IF IsFalse(entry, "enabled") \/ IsFalse(settings, "enabled")
             THEN <<Str("Push notification plugin is disabled.")>>
             ELSE <<Str("Push notification plugin is configured!"),
                    Str("Backend URL:") \o Str(" ") \o settings.backendUrl,
                    Str("Default Title:") \o Str(" ")
                        \o FirstTruthy(settings, "defaultTitle", Str("OpenClaw Agent"))>>

\* The operator runs the diagnostic command: it resolves the entry and prints.
TestCommand ==
    /\ pc = "idle"
    /\ pluginEntry' = resolvePushPluginEntry(config)
    /\ console' = TestCommandLines(config)
    /\ UNCHANGED <<config, env, pc, call, fetchCalls, aborted, response,
                   bodyRead, caught, outcome, trace>>

Next ==
    \/ \E e \in EnvSet : SetEnv(e)
    \/ \E input \in Inputs : Invoke(input)
    \/ \E signalFired \in BOOLEAN : Execute(signalFired)
    \/ Abort
    \/ \E resp \in Responses : FetchResolves(resp)
    \/ \E error \in TransportErrors \cup AbortReasons : FetchRejects(error)
    \/ AfterFetchRejected
    \/ \E parsed \in JsonBodies \cup {JsonRejected} : BodySettles(parsed)
    \/ AfterBodySettled
    \/ Return

Spec == Init /\ [][Next]_vars

\* The event loop runs every continuation whose promise has settled.
SpecFair ==
    Spec /\ WF_vars(AfterFetchRejected) /\ WF_vars(AfterBodySettled)

\* Every entries map over the recognized keys and one foreign key: each subset
\* of the keys in each insertion order, with each choice of entries.
KeyOrders ==
    {ks \in UNION {[1..n -> AllKeys] : n \in 0..Cardinality(AllKeys)} :
        \A i, j \in 1..Len(ks) : i # j => ks[i] # ks[j]}
KeysOf(ks) == {ks[i] : i \in 1..Len(ks)}
ResolveConfigs ==
    ShapeConfigs
        \cup UNION {{Cfg(Entries(ks, at)) : at \in [KeysOf(ks) -> ProbeEntries]} :
                      ks \in KeyOrders}

\* The resolver on its own, as the diagnostic command runs it.
InitCli ==
    /\ config \in ResolveConfigs
    /\ env = EmptyObj
    /\ pc = "idle"
    /\ call = None
    /\ pluginEntry = None
    /\ fetchCalls = <<>>
    /\ aborted = FALSE
    /\ response = None
    /\ bodyRead = None
    /\ caught = None
    /\ outcome = None
    /\ trace = <<>>
    /\ console = <<>>

NextCli == TestCommand

SpecCli == InitCli /\ [][NextCli]_vars

-----------------------------------------------------------------------------
(* Properties *)

Resolved(o) == Has(o, "kind") /\ o.kind = "resolved"
Rejected(o) == Has(o, "kind") /\ o.kind = "rejected"
Contains(text, chunk) == \E i \in 1..Len(text) : text[i] = chunk
InFlight == pc \in {"awaitFetch", "awaitBody"}

\* The entries of a configuration tree, by key.
EntriesAt(cfg) ==
    IF Has(cfg, "plugins") /\ Has(cfg.plugins, "entries")
    THEN cfg.plugins.entries.at
    ELSE EmptyObj

Rank(k) == CASE k = "push-notification" -> 1
             [] k = "openclaw-push-notification" -> 2
             [] k = "push_notification" -> 3

PresentAliases(cfg) == {k \in RecognizedKeys : Has(EntriesAt(cfg), k)}

\* The entry a configuration tree designates for this plugin: the one under
\* the present recognized key of highest precedence, if any.
DesignatedEntry(cfg) ==
    IF PresentAliases(cfg) = {}
    THEN Undefined
    ELSE EntriesAt(cfg)[CHOOSE k \in PresentAliases(cfg) :
                           \A h \in PresentAliases(cfg) : Rank(k) <= Rank(h)]

\* The entry-level or the settings-level enabled flag is false.
EntryDisabled(entry) ==
    /\ entry # Undefined
    /\ \/ (Has(entry, "enabled") /\ entry.enabled = FALSE)
       \/ (Has(entry, "config") /\ Has(entry.config, "enabled")
              /\ entry.config.enabled = FALSE)

\* The entry has settings with a backendUrl that is a URL.
EntryHasUrl(entry) ==
    /\ entry # Undefined
    /\ Has(entry, "config")
    /\ Has(entry.config, "backendUrl")
    /\ entry.config.backendUrl # EmptyStr

\* The input has the Request shape: a message of at least one character and,
\* if any, a priority of the list.
RequestIsValid(input) ==
    /\ Has(input, "message")
    /\ input.message # EmptyStr
    /\ Has(input, "priority")
          => input.priority \in {Str("low"), Str("normal"), Str("high")}

\* The request of the current call, and the payload its body carries.
SentPayload(calls) == calls[1].body.jsonText

\* C1: execute() rejects only when validation fails: whenever a call settles,
\* it settles by rejection if the input failed validation, and otherwise by
\* resolving with a Result, whatever the config, the environment, the response
\* and the way the transport ended.
C1_OnlyValidationRejects ==
    [][(pc # "settled" /\ pc' = "settled")
         => IF pc = "invoked" /\ ~PushSchemaAccepts(call)
            THEN Rejected(outcome')
            ELSE Resolved(outcome') /\ outcome'.details.success \in BOOLEAN]_vars

\* C1 witness: a call whose fetch rejected, on an aborted signal, has resolved
\* with a failure Result.
C1_Witness ==
    /\ pc = "settled"
    /\ aborted
    /\ Resolved(outcome)
    /\ outcome.details.success = FALSE
    /\ Len(fetchCalls) = 1
    /\ response = None

\* C2: with the resolved entry disabled at entry level or at settings level,
\* with or without a backendUrl, no request is ever handed to fetch and every
\* Result is exactly the "disabled" failure.
C2_DisabledShortCircuits ==
    EntryDisabled(DesignatedEntry(config))
        => /\ fetchCalls = <<>>
           /\ ~InFlight
           /\ (pc = "settled" /\ Resolved(outcome))
                 => outcome.details =
                        [success |-> FALSE,
                         error |-> Str("Push notification plugin is disabled")]

\* C2 witness: a settings-level disabled entry without backendUrl has answered
\* "disabled".
C2_Witness ==
    /\ pc = "settled"
    /\ Resolved(outcome)
    /\ outcome.details.error = Str("Push notification plugin is disabled")
    /\ config = Cfg(Entries(<<CanonicalKey>>,
                            CanonicalKey :> [config |-> [enabled |-> FALSE]]))

\* C3: with no entry resolved, or with a resolved entry that is not disabled
\* and has no backendUrl, no request is ever handed to fetch and every Result
\* is a failure whose error contains "not configured" and names the
\* configuration path to set.
C3_UnconfiguredShortCircuits ==
    LET entry == DesignatedEntry(config)
        noUrl == ~EntryDisabled(entry)
                    /\ (~Has(entry, "config") \/ ~Has(entry.config, "backendUrl"))
    IN  (entry = Undefined \/ noUrl)
            => /\ fetchCalls = <<>>
               /\ ~InFlight
               /\ (pc = "settled" /\ Resolved(outcome))
                     => /\ outcome.details.success = FALSE
                        /\ Contains(outcome.details.error, "not configured")
                        /\ Contains(outcome.details.error,
                               "plugins.entries[\"push-notification\"].config.backendUrl")

\* C3 witness: an entries map whose only key is a foreign one, holding a fully
\* configured entry, has answered "not configured".
C3_Witness ==
    /\ pc = "settled"
    /\ Resolved(outcome)
    /\ Contains(outcome.details.error, "not configured")
    /\ config = Cfg(Entries(<<OtherKey>>, OtherKey :> EnabledEntry))

\* C4: an input without message, with an empty message, or with a priority off
\* the list is rejected, before the entry is resolved and with no request
\* handed to fetch, also when the plugin is configured and enabled.
C4_InvalidRejectedFirst ==
    [][(pc = "invoked" /\ ~RequestIsValid(call))
         => /\ Rejected(outcome')
            /\ pc' = "settled"
            /\ fetchCalls' = <<>>
            /\ pluginEntry' = None
            /\ ~Contains(trace', "Resolving")]_vars

\* C4 witness: a call was rejected although the plugin is configured and
\* enabled, and nothing was resolved or sent.
C4_Witness ==
    /\ pc = "settled"
    /\ Rejected(outcome)
    /\ pluginEntry = None
    /\ fetchCalls = <<>>
    /\ EntryHasUrl(DesignatedEntry(config))
    /\ ~EntryDisabled(DesignatedEntry(config))

\* C5: an input with a valid message and a property other than message, title,
\* data and priority fails validation, and no request is handed to fetch.
C5_UnknownFieldsRejected ==
    [][(/\ pc = "invoked"
        /\ Has(call, "message")
        /\ call.message # EmptyStr
        /\ DOMAIN call \ {"message", "title", "data", "priority"} # {})
         => Rejected(outcome') /\ fetchCalls' = <<>>]_vars

\* C8: a call hands at most one request to fetch; exactly one when the input
\* is valid and the entry is enabled and has a backendUrl; and none is added
\* while the request is in flight or when it ends, however it ends.
C8_SingleAttempt ==
    [][/\ Len(fetchCalls') <= 1
       /\ (pc = "invoked" /\ RequestIsValid(call)
              /\ EntryHasUrl(DesignatedEntry(config))
              /\ ~EntryDisabled(DesignatedEntry(config)))
            => Len(fetchCalls') = 1
       /\ InFlight => fetchCalls' = fetchCalls]_vars

\* C8 witness: after a 503 with an unparsable body the call has settled with
\* one request made.
C8_Witness ==
    /\ pc = "settled"
    /\ Len(fetchCalls) = 1
    /\ Has(response, "status")
    /\ response.status = 503
    /\ Resolved(outcome)
    /\ outcome.details.error =
          <<"Failed to send notification: ", "503", " ", "Service Unavailable">>

\* C9: every Result is of one of two variants: success with a result and no
\* error, or failure with a non-empty error and no result.
C9_TwoVariants ==
    Resolved(outcome)
        => LET d == outcome.details
           IN  \/ /\ d.success = TRUE
                  /\ Has(d, "result")
                  /\ ~Has(d, "error")
               \/ /\ d.success = FALSE
                  /\ Has(d, "error")
                  /\ d.error # EmptyStr
                  /\ ~Has(d, "result")

\* C9 witness: a 503 whose body is a JSON object with an error field has given
\* a failure Result.
C9_Witness ==
    /\ pc = "settled"
    /\ Resolved(outcome)
    /\ outcome.details =
          [success |-> FALSE,
           error |-> <<"Failed to send notification: ", "Backend unavailable">>]

\* The payload a sending call must hand to fetch when `supplied` says which
\* optional strings count as given.
PayloadIsNormalized(payload, input, settings, e, supplied(_, _)) ==
    /\ payload.message = input.message
    /\ payload.title =
          IF supplied(input, "title") THEN input.title
          ELSE IF supplied(settings, "defaultTitle") THEN settings.defaultTitle
          ELSE Str("OpenClaw Agent")
    /\ payload.data = IF Has(input, "data") THEN input.data ELSE EmptyObj
    /\ payload.priority =
          IF Has(input, "priority") THEN input.priority ELSE Str("normal")
    /\ payload.jobId =
          IF supplied(e, "OPENCLAW_JOB_ID") THEN e.OPENCLAW_JOB_ID
          ELSE IF supplied(e, "JOB_ID") THEN e.JOB_ID
          ELSE Str("unknown")
    /\ payload.agentId =
          IF supplied(e, "OPENCLAW_AGENT_ID") THEN e.OPENCLAW_AGENT_ID
          ELSE IF supplied(e, "AGENT_ID") THEN e.AGENT_ID
          ELSE Str("unknown")

IsSet(o, k) == Has(o, k)
IsSetAndNonEmpty(o, k) == Has(o, k) /\ o[k] # EmptyStr

\* C10 as stated: the payload of a sending call takes the request title when
\* the request has one, else the defaultTitle when the entry has one, and each
\* identifier from the first of its two variables that is set, all read from
\* the environment as it is when the call is made.
C10_PayloadAsSupplied ==
    [][(pc = "invoked" /\ pc' = "awaitFetch")
         => PayloadIsNormalized(SentPayload(fetchCalls'), call,
                DesignatedEntry(config).config, env, IsSet)]_vars

\* C10 amended: the same, where a title, a defaultTitle or a variable that is
\* the empty string counts as not given.
C10_PayloadNormalized ==
    [][(pc = "invoked" /\ pc' = "awaitFetch")
         => PayloadIsNormalized(SentPayload(fetchCalls'), call,
                DesignatedEntry(config).config, env, IsSetAndNonEmpty)]_vars

\* C10 witness: with OPENCLAW_JOB_ID set to "" and JOB_ID set, a request is in
\* flight whose payload has the JOB_ID value and the entry's defaultTitle.
C10_Witness ==
    /\ pc = "awaitFetch"
    /\ Has(env, "OPENCLAW_JOB_ID")
    /\ env.OPENCLAW_JOB_ID = EmptyStr
    /\ SentPayload(fetchCalls).jobId = Str("job-legacy")
    /\ SentPayload(fetchCalls).agentId = Str("agent-xyz")
    /\ SentPayload(fetchCalls).title = Str("Agent Default")
    /\ SentPayload(fetchCalls).priority = Str("normal")
    /\ SentPayload(fetchCalls).data = EmptyObj

-----------------------------------------------------------------------------
(* Properties of the resolver, under SpecCli *)

\* C6: the resolver returns, unchanged, the entry under the present key of
\* highest precedence (canonical, package name, legacy), whatever the order of
\* the keys in the map and whatever that entry holds, and undefined when none
\* of the three keys is present.
C6_FirstPresentKeyWins ==
    pluginEntry # None
        => /\ \A k \in PresentAliases(config) :
                (\A h \in PresentAliases(config) : Rank(k) <= Rank(h))
                    => pluginEntry = EntriesAt(config)[k]
           /\ PresentAliases(config) = {} => pluginEntry = Undefined

\* C6 witness: a disabled canonical entry, inserted after an enabled
\* package-name entry, is the one returned.
C6_Witness ==
    /\ pluginEntry = DisabledEntry
    /\ config = Cfg(Entries(<<PackageKey, CanonicalKey>>,
                            (PackageKey :> EnabledEntry)
                                @@ (CanonicalKey :> DisabledEntry)))

\* C7 as stated: with more than one recognized key present, the resolver
\* returns the entry of the canonical key.
C7_CanonicalAlwaysWins ==
    (pluginEntry # None /\ Cardinality(PresentAliases(config)) > 1)
        => /\ Has(EntriesAt(config), CanonicalKey)
           /\ pluginEntry = EntriesAt(config)[CanonicalKey]

\* C7 amended: with more than one recognized key present, the resolver returns
\* the entry of the canonical key when that key is among them, and the entry of
\* the package-name key when it is not, whatever the order of the keys.
C7_CanonicalWinsWhenPresent ==
    (pluginEntry # None /\ Cardinality(PresentAliases(config)) > 1)
        => pluginEntry =
              IF Has(EntriesAt(config), CanonicalKey)
              THEN EntriesAt(config)[CanonicalKey]
              ELSE EntriesAt(config)[PackageKey]

\* C7 witness: all three keys are present, the canonical one inserted last,
\* and its entry is the one returned.
C7_Witness ==
    /\ pluginEntry = UrlLessEntry
    /\ config = Cfg(Entries(<<LegacyKey, PackageKey, CanonicalKey>>,
                            (LegacyKey :> EnabledEntry)
                                @@ (PackageKey :> DisabledEntry)
                                @@ (CanonicalKey :> UrlLessEntry)))

-----------------------------------------------------------------------------
(* Properties of the outbound request *)

\* The configured backendUrl of the designated entry.
ConfiguredUrl == DesignatedEntry(config).config.backendUrl

\* The text up to and including its last character that is not "/".
WithoutTrailingSlashes(text) ==
    LET keep == {i \in 1..Len(text) : text[i] # "/"}
    IN  IF keep = {}
        THEN <<>>
        ELSE SubSeq(text, 1, CHOOSE i \in keep : \A j \in keep : j <= i)

\* C11: the target of every outbound request is POST to the configured
\* backendUrl without any of its trailing "/" followed by
\* "/api/notifications/send", so exactly one "/" stands before
\* "api/notifications/send", however many "/" the configured URL ends with.
C11_TargetTrimmed ==
    \A i \in 1..Len(fetchCalls) :
        LET target == fetchCalls[i].url
            n == Len(target)
        IN  /\ fetchCalls[i].method = "POST"
            /\ target = WithoutTrailingSlashes(ConfiguredUrl)
                            \o <<"/", "api", "/", "notifications", "/", "send">>
            /\ SubSeq(target, n - 5, n)
                   = <<"/", "api", "/", "notifications", "/", "send">>
            /\ n > 6 => target[n - 6] # "/"

\* C11 witness: a backendUrl that ends with the largest number of "/" has a
\* request in flight to the base URL followed by the path.
C11_Witness ==
    /\ pc = "awaitFetch"
    /\ ConfiguredUrl = <<"https:", "/", "/", "notify.example">> \o Slashes(MaxSlashes)
    /\ MaxSlashes >= 2
    /\ fetchCalls[1].url = <<"https:", "/", "/", "notify.example",
                              "/", "api", "/", "notifications", "/", "send">>

\* The headers an outbound request must carry when `given` says whether the
\* entry's settings have an apiKey.
HeadersAreAsDeclared(headers, settings, given(_, _)) ==
    /\ DOMAIN headers \subseteq {"Content-Type", "Authorization"}
    /\ Has(headers, "Content-Type")
    /\ headers["Content-Type"] = Str("application/json")
    /\ Has(headers, "Authorization") <=> given(settings, "apiKey")
    /\ Has(headers, "Authorization")
          => headers["Authorization"] = <<"Bearer ">> \o settings.apiKey

\* C12 as stated: every outbound request carries Content-Type:
\* application/json, and an Authorization header if and only if the resolved
\* entry's settings have an apiKey set, its value being "Bearer " followed by
\* that apiKey.
C12_AuthorizationIffSet ==
    \A i \in 1..Len(fetchCalls) :
        HeadersAreAsDeclared(fetchCalls[i].headers,
            DesignatedEntry(config).config, IsSet)

\* C12 amended: the same, where an apiKey that is the empty string counts as
\* no apiKey: such a dispatch sends no Authorization header.
C12_AuthorizationIffNonEmpty ==
    \A i \in 1..Len(fetchCalls) :
        HeadersAreAsDeclared(fetchCalls[i].headers,
            DesignatedEntry(config).config, IsSetAndNonEmpty)

\* C12 witness: an entry with an apiKey has a request in flight that carries
\* both headers.
C12_Witness ==
    /\ pc = "awaitFetch"
    /\ Has(DesignatedEntry(config).config, "apiKey")
    /\ DesignatedEntry(config).config.apiKey = Str("secret-key")
    /\ fetchCalls[1].headers =
          [x \in {"Content-Type", "Authorization"} |->
              IF x = "Content-Type"
              THEN <<"application/json">>
              ELSE <<"Bearer ", "secret-key">>]

-----------------------------------------------------------------------------
(* Properties of the Result of a request that was sent *)

FailurePrefix == <<"Failed to send notification: ">>
SuccessStatus(resp) == resp.status >= 200 /\ resp.status <= 299
StatusLine(resp) == <<ToString(resp.status), " ">> \o resp.statusText

\* A call has ended after response.json() settled on the response it got.
SettledOnBody == pc = "settled" /\ response # None /\ bodyRead # None

\* The text of a JSON value when it is put into a message.
TextOf(json) ==
    IF json.type = "string" THEN json.value
    ELSE IF json.type = "number" THEN <<ToString(json.number)>>
    ELSE <<json.type>>

\* The parsed body is an object with a field k.
HasField(json, k) == json.type = "object" /\ Has(json.props, k)

\* The parsed body is an object whose field k is a string with a character
\* that is not white space.
HasTextField(json, k) ==
    /\ HasField(json, k)
    /\ json.props[k].type = "string"
    /\ \E i \in 1..Len(json.props[k].value) :
          json.props[k].value[i] \notin {" ", "\t", "\n"}

\* The m of a failure on a non-success status when `usable` says which fields
\* of the body count.
BackendMessage(resp, json, usable(_, _)) ==
    IF usable(json, "error") THEN TextOf(json.props.error)
    ELSE IF usable(json, "message") THEN TextOf(json.props.message)
    ELSE StatusLine(resp)

\* C13 as stated: on every non-success status the Result is the failure
\* "Failed to send notification: " + m, m being the error field of the parsed
\* body if it has one, else its message field if it has one, else
\* "<status> <statusText>".
C13_ErrorFieldIfPresent ==
    (SettledOnBody /\ ~SuccessStatus(response))
        => /\ Resolved(outcome)
           /\ outcome.details =
                 [success |-> FALSE,
                  error |-> FailurePrefix
                               \o BackendMessage(response, bodyRead, HasField)]

\* C13 amended: the same, where a field counts only if it is a string with at
\* least one character that is not white space; a field that is no string or
\* is blank is passed over for the next source.
C13_ErrorFieldIfText ==
    (SettledOnBody /\ ~SuccessStatus(response))
        => /\ Resolved(outcome)
           /\ outcome.details =
                 [success |-> FALSE,
                  error |-> FailurePrefix
                               \o BackendMessage(response, bodyRead, HasTextField)]

\* C13 witness: a 503 whose body has both an error and a message field has
\* given the failure that carries the error field.
C13_Witness ==
    /\ SettledOnBody
    /\ response.status = 503
    /\ bodyRead = JObj([error |-> JStr(Str("Backend unavailable")),
                        message |-> JStr(Str("Try again later"))])
    /\ outcome.details.error =
          <<"Failed to send notification: ", "Backend unavailable">>

\* fetch rejected with an Error, before any response was obtained.
TransportFailed ==
    /\ pc = "settled"
    /\ response = None
    /\ caught # None

\* C14: when fetch rejects before a response is obtained, the call does not
\* reject: it resolves with a failure Result, and when the rejection is an
\* Error with message M the Result is exactly
\* {success: false, error: "Failed to send notification: " + M}.
C14_TransportFailureIsResult ==
    TransportFailed
        => /\ Resolved(outcome)
           /\ outcome.details.success = FALSE
           /\ caught.isError
                 => outcome.details =
                       [success |-> FALSE,
                        error |-> FailurePrefix \o caught.message]

\* C14 witness: the connection was refused, nothing was aborted, and the
\* Result carries the message of the error.
C14_Witness ==
    /\ TransportFailed
    /\ ~aborted
    /\ caught.isError
    /\ caught.message = <<"ECONNREFUSED">>
    /\ outcome.details.error = <<"Failed to send notification: ", "ECONNREFUSED">>

\* The object {success: true} as a JSON value.
MinimalSuccess ==
    [type |-> "object", props |-> [success |-> [type |-> "boolean", bool |-> TRUE]]]

\* C15: on every success status the Result is {success: true, result: R},
\* never a failure: R is the parsed body, unchanged, when response.json()
\* gave one, and the object {success: true} when it did not.
C15_SuccessStatusIsSuccess ==
    (SettledOnBody /\ SuccessStatus(response))
        => /\ Resolved(outcome)
           /\ outcome.details =
                 [success |-> TRUE,
                  result |-> IF bodyRead.type = "rejected"
                             THEN MinimalSuccess
                             ELSE bodyRead]

\* C15 witness: a 200 whose body was no JSON, with no abort, has given the
\* substituted object.
C15_Witness ==
    /\ SettledOnBody
    /\ ~aborted
    /\ response.status = 200
    /\ bodyRead.type = "rejected"
    /\ outcome.details.success = TRUE
    /\ outcome.details.result = MinimalSuccess

\* The text begins with "Failed to send notification: ".
HasFailurePrefix(text) == Len(text) >= 1 /\ text[1] = "Failed to send notification: "

\* C16: a call whose signal fired while its request was in flight, before the
\* response arrived or while the body was read, on a success or a non-success
\* status, ends with a failure Result whose error begins with
\* "Failed to send notification: ", and never with success: true.
C16_CancelledIsFailure ==
    (pc = "settled" /\ aborted /\ fetchCalls # <<>>)
        => /\ Resolved(outcome)
           /\ outcome.details.success = FALSE
           /\ HasFailurePrefix(outcome.details.error)

-----------------------------------------------------------------------------
(* Properties of what execute() returns *)

\* C17: whenever execute() has returned, content holds exactly one item, of
\* type text, and details is a Result; the text is "Push notification sent
\* successfully." if and only if details.success is true, and otherwise it is
\* "Push notification failed: " followed by details.error.
C17_TextMatchesDetails ==
    Resolved(outcome)
        => LET item == outcome.content[1]
               d == outcome.details
           IN  /\ Len(outcome.content) = 1
               /\ DOMAIN item = {"type", "text"}
               /\ item.type = "text"
               /\ DOMAIN d \in {{"success", "result"}, {"success", "error"}}
               /\ d.success \in BOOLEAN
               /\ item.text = <<"Push notification sent successfully.">>
                     <=> d.success = TRUE
               /\ d.success = FALSE
                     => item.text = <<"Push notification failed: ">> \o d.error

\* C17 witness: the call of a disabled plugin has returned the failure text
\* with the error of its details.
C17_Witness ==
    /\ pc = "settled"
    /\ Resolved(outcome)
    /\ fetchCalls = <<>>
    /\ outcome.details.success = FALSE
    /\ outcome.content[1].text =
          <<"Push notification failed: ", "Push notification plugin is disabled">>

-----------------------------------------------------------------------------
(* Properties of the course of a call, under SpecFair *)

\* The four complete courses of a call that passed validation.
Courses ==
    {<<"Validating", "Resolving", "Disabled">>,
     <<"Validating", "Resolving", "Unconfigured">>,
     <<"Validating", "Resolving", "Sending", "Delivered">>,
     <<"Validating", "Resolving", "Sending", "DeliveryFailed">>}

TerminalPhases == {"Disabled", "Unconfigured", "Delivered", "DeliveryFailed"}

IsPrefix(a, b) == Len(a) <= Len(b) /\ a = SubSeq(b, 1, Len(a))

TerminalsIn(phases) == {i \in 1..Len(phases) : phases[i] \in TerminalPhases}

\* The outbound call has settled and executePush has not yet resumed.
OutboundSettled == pc \in {"fetchRejected", "bodySettled"}

\* The call has ended in exactly one terminal phase, the last of its course.
InOneTerminal ==
    /\ pc = "settled"
    /\ trace \in Courses
    /\ Cardinality(TerminalsIn(trace)) = 1

\* The phases so far are the beginning of one course: no phase twice, none out
\* of order, Delivered and DeliveryFailed only after Sending.
CourseIsLinear ==
    /\ \E c \in Courses : IsPrefix(trace, c)
    /\ Contains(trace, "Sending")
          => /\ EntryHasUrl(DesignatedEntry(config))
             /\ ~EntryDisabled(DesignatedEntry(config))
    /\ (InFlight \/ OutboundSettled)
          => trace = <<"Validating", "Resolving", "Sending">>
    /\ pc = "settled"
          => IF Rejected(outcome)
             THEN trace = <<"Validating">>
             ELSE InOneTerminal

\* A step never takes a phase back, and enters Sending only from a valid input.
CourseOnlyGrows ==
    /\ trace' # <<>> => IsPrefix(trace, trace')
    /\ (~Contains(trace, "Sending") /\ Contains(trace', "Sending"))
          => pc = "invoked" /\ RequestIsValid(call)

\* C18: each call runs Validating -> Resolving -> {Disabled | Unconfigured |
\* Sending} -> {Delivered | DeliveryFailed} without loop or step back; Sending
\* is entered only with a valid input and an enabled entry with a backendUrl,
\* Delivered and DeliveryFailed only from Sending; and once the outbound call
\* has settled, the call eventually ends in exactly one terminal phase.
C18_LinearCourse ==
    /\ []CourseIsLinear
    /\ [][CourseOnlyGrows]_vars
    /\ (OutboundSettled ~> InOneTerminal)

\* C18 witness: a call whose fetch rejected has gone through Sending and ended
\* in DeliveryFailed.
C18_Witness ==
    /\ pc = "settled"
    /\ caught # None
    /\ trace = <<"Validating", "Resolving", "Sending", "DeliveryFailed">>

====
